---- MODULE Spec2Model ----
(***************************************************************************)
(* Letter-in-go: the tokenizer (tokenizer/tokenizer.go), the recursive     *)
(* descent parser (parser/parser.go) and the AST rendering (ast package)   *)
(* as one state machine.  A source text is a sequence of one-character     *)
(* strings; the parser's call stack is explicit.                           *)
(***************************************************************************)
EXTENDS Integers, Sequences, FiniteSets, TLC

VARIABLES
    input,       \* Tokenizer.input: the source text
    cursor,      \* Tokenizer.cursor (0-based offset into input)
    lookAhead,   \* Parser.lookAhead
    pc,          \* <<function, position>> of the running code
    cont,        \* where the caller of GetNextToken continues
    stack,       \* the parser's call stack, innermost activation first
    ret,         \* the value the last returning function returned
    eaten,       \* the token eat() returned to its caller
    statements,  \* statementList's local slice
    outcome,     \* "running", the Program returned, or the panic raised
    tokens,      \* history: every token GetNextToken returned, with its span
    skipped,     \* history: every span consumed by an IGNORE rule
    mode,        \* the caller: "parse" (Parse), "reparse" (Parse, print, Parse
                 \* the printed text) or "lex" (GetNextToken until the end)
    pass,        \* 1: the given source; 2: the rendering of the first tree
    first,       \* the run of pass 1, kept for comparison in pass 2
    eats,        \* history: the number of tokens eat() has consumed
    stmtMark     \* history: eats when the current statement began

vars == <<input, cursor, lookAhead, pc, cont, stack, ret, eaten, statements,
          outcome, tokens, skipped, mode, pass, first, eats, stmtMark>>

----------------------------------------------------------------------------
(* Characters and sequences                                                *)

Whitespace == {" ", "\t", "\n", "\r", "\f"}

Digits == <<"0", "1", "2", "3", "4", "5", "6", "7", "8", "9">>

Digit == {Digits[i] : i \in 1..Len(Digits)}

Letter == {"a", "b", "c", "d", "e", "f", "g", "h", "i", "j", "k", "l", "m",
           "n", "o", "p", "q", "r", "s", "t", "u", "v", "w", "x", "y", "z",
           "A", "B", "C", "D", "E", "F", "G", "H", "I", "J", "K", "L", "M",
           "N", "O", "P", "Q", "R", "S", "T", "U", "V", "W", "X", "Y", "Z"}

\* \w of Go's regexp: ASCII letters, digits and underscore
WordChar == Letter \cup Digit \cup {"_"}

Take(s, n) == SubSeq(s, 1, n)

Drop(s, n) == SubSeq(s, n + 1, Len(s))

HasPrefix(s, p) == Len(s) >= Len(p) /\ Take(s, Len(p)) = p

Min(S) == CHOOSE m \in S : \A n \in S : m <= n

RECURSIVE RunLen(_, _)
\* length of the longest prefix of s made of characters of class
RunLen(s, class) ==
    IF s = <<>> \/ Head(s) \notin class THEN 0 ELSE 1 + RunLen(Tail(s), class)

RECURSIVE UntilLen(_, _)
\* length of the longest prefix of s holding no character of stop
UntilLen(s, stop) ==
    IF s = <<>> \/ Head(s) \in stop THEN 0 ELSE 1 + UntilLen(Tail(s), stop)

RECURSIVE Cat(_)
\* concatenation of a sequence of sequences
Cat(ss) == IF ss = <<>> THEN <<>> ELSE Head(ss) \o Cat(Tail(ss))

RECURSIVE Join(_, _)
\* strings.Join
Join(ss, sep) ==
    IF ss = <<>> THEN <<>>
    ELSE IF Len(ss) = 1 THEN ss[1]
    ELSE ss[1] \o sep \o Join(Tail(ss), sep)

----------------------------------------------------------------------------
(* ast: the nodes and their rendering                                      *)

Nil == [kind |-> "nil"]

\* a []ast.Expression as a function's result
Expressions(list) == [kind |-> "[]Expression", List |-> list]

Program(stmts) == [kind |-> "Program", Statements |-> stmts]

ExpressionStatement(e) == [kind |-> "ExpressionStatement", Expression |-> e]

NumericLiteral(v) == [kind |-> "NumericLiteral", Value |-> v]

StringLiteral(v) == [kind |-> "StringLiteral", Value |-> v]

BooleanLiteral(v) == [kind |-> "BooleanLiteral", Value |-> v]

NullLiteral == [kind |-> "NullLiteral"]

Identifier(name) == [kind |-> "Identifier", Name |-> name]

ThisExpression == [kind |-> "ThisExpression"]

SuperExpression == [kind |-> "SuperExpression"]

AssignmentExpression(op, l, r) ==
    [kind |-> "AssignmentExpression", Operator |-> op, Left |-> l, Right |-> r]

LogicalExpression(op, l, r) ==
    [kind |-> "LogicalExpression", Operator |-> op, Left |-> l, Right |-> r]

BinaryExpression(op, l, r) ==
    [kind |-> "BinaryExpression", Operator |-> op, Left |-> l, Right |-> r]

UnaryExpression(op, r) == [kind |-> "UnaryExpression", Operator |-> op, Right |-> r]

CallExpression(callee, args) ==
    [kind |-> "CallExpression", Callee |-> callee, Arguments |-> args]

MemberExpression(object, property, computed) ==
    [kind |-> "MemberExpression", Computed |-> computed, Object |-> object,
     Property |-> property]

NewExpression(callee, args) ==
    [kind |-> "NewExpression", Callee |-> callee, Arguments |-> args]

RECURSIVE FormatInt(_)
\* fmt.Sprintf("%v", n) of a non-negative integer
FormatInt(n) ==
    IF n < 10 THEN <<Digits[n + 1]>>
    ELSE FormatInt(n \div 10) \o <<Digits[(n % 10) + 1]>>

RECURSIVE ToStringOf(_)
\* Node.ToString()
ToStringOf(e) ==
    LET k == e.kind
        each(xs) == [i \in 1..Len(xs) |-> ToStringOf(xs[i])]
    IN  CASE k = "Program" -> Cat(each(e.Statements))
          [] k = "ExpressionStatement" -> ToStringOf(e.Expression)
          [] k = "NumericLiteral" -> FormatInt(e.Value)
          [] k = "StringLiteral" -> e.Value
          [] k = "BooleanLiteral" ->
                IF e.Value THEN <<"t", "r", "u", "e">> ELSE <<"f", "a", "l", "s", "e">>
          [] k = "NullLiteral" -> <<"n", "u", "l", "l">>
          [] k = "AssignmentExpression" ->
                ToStringOf(e.Left) \o <<" ">> \o e.Operator \o <<" ">> \o ToStringOf(e.Right)
          [] k \in {"LogicalExpression", "BinaryExpression"} ->
                <<"(">> \o ToStringOf(e.Left) \o e.Operator \o ToStringOf(e.Right) \o <<")">>
          [] k = "UnaryExpression" ->
                <<"(">> \o e.Operator \o ToStringOf(e.Right) \o <<")">>
          [] k = "CallExpression" ->
                ToStringOf(e.Callee) \o <<"(">> \o Join(each(e.Arguments), <<",", " ">>)
                    \o <<")">>
          [] k = "MemberExpression" ->
                IF ~e.Computed
                THEN ToStringOf(e.Object) \o <<".">> \o ToStringOf(e.Property)
                ELSE ToStringOf(e.Object) \o <<"[">> \o ToStringOf(e.Property) \o <<"]">>
          [] k = "SuperExpression" -> <<"s", "u", "p", "e", "r">>
          [] k = "Identifier" -> e.Name
          [] k = "ThisExpression" -> <<"t", "h", "i", "s">>
          [] k = "NewExpression" ->
                <<"n", "e", "w", " ">> \o ToStringOf(e.Callee) \o <<"(">>
                    \o Join(each(e.Arguments), <<",", " ">>) \o <<")">>

----------------------------------------------------------------------------
(* tokenizer.go: token categories and the ordered rule table               *)

\* the TokenType enumeration, in iota order (LPAREN = 0 ... ERROR = 39)
TokenTypes == <<
    "LPAREN", "RPAREN", "LBRACE", "RBRACE", "LBRACKET", "RBRACKET", "COMMA",
    "SEMICOLON", "DOT",
    "LET", "IF", "ELSE", "TRUE", "FALSE", "NULL", "DEF", "RETURN",
    "WHILE", "DO", "FOR",
    "CLASS", "THIS", "EXTENDS", "SUPER", "NEW",
    "NUMBER", "STRING", "IDENTIFIER",
    "SIMPLE_ASSIGN", "COMPLEX_ASSIGN", "RELATIONAL_OPERATOR",
    "EQUALITY_OPERATOR", "ADDITIVE_OPERATOR", "MULTIPLICATIVE_OPERATOR",
    "LOGICAL_AND", "LOGICAL_OR", "LOGICAL_NOT",
    "IGNORE", "EOF", "ERROR" >>

\* the numeric value of a TokenType
Iota(type) == (CHOOSE i \in 1..Len(TokenTypes) : TokenTypes[i] = type) - 1

\* the TokenNames array, indexed by the numeric value of the type
TokenNames == <<
    "LPAREN", "RPAREN", "LBRACE", "RBRACE", "LBRACKET", "RBRACKET", "COMMA",
    "SEMICOLON", "DOT",
    "LET", "IF", "ELSE", "TRUE", "FALSE", "NULL", "DEF", "RETURN",
    "WHILE", "DO", "FOR",
    "CLASS", "THIS", "EXTENDS", "SUPER", "NEW",
    "NUMBER", "STRING", "IDENTIFIER",
    "SIMPLE_ASSIGN", "COMPLEX_ASSIGN", "RELATIONAL_OPERATOR",
    "EQUALITY_OPERATOR", "ADDITIVE_OPERATOR", "MULTIPLICATIVE_OPERATOR",
    "LOGICAL_AND", "LOGICAL_OR", "LOGICAL_NOT",
    "IGNORE", "EOF", "ERROR" >>

Token(type, value) == [Type |-> type, Value |-> value]

\* A rule: the shape of its regular expression, the text the shape is about,
\* and the category.
Tuple(re, text, type) == [RegEx |-> [re |-> re, text |-> text], Type |-> type]

IgnoreRules == <<
    Tuple("\\s+", <<>>, "IGNORE"),
    Tuple("//.*", <<"/", "/">>, "IGNORE"),
    Tuple("/*...*/", <<"/", "*">>, "IGNORE") >>

SymbolRules == <<
    Tuple("lit", <<"{">>, "LBRACE"),
    Tuple("lit", <<"}">>, "RBRACE"),
    Tuple("lit", <<"(">>, "LPAREN"),
    Tuple("lit", <<")">>, "RPAREN"),
    Tuple("lit", <<"[">>, "LBRACKET"),
    Tuple("lit", <<"]">>, "RBRACKET"),
    Tuple("lit", <<",">>, "COMMA"),
    Tuple("lit", <<";">>, "SEMICOLON"),
    Tuple("lit", <<".">>, "DOT") >>

RelationalRules == <<
    Tuple("[..]=?", <<"<", ">">>, "RELATIONAL_OPERATOR"),
    Tuple("[..]=", <<"!", "=">>, "EQUALITY_OPERATOR") >>

LogicalRules == <<
    Tuple("lit", <<"&", "&">>, "LOGICAL_AND"),
    Tuple("lit", <<"|", "|">>, "LOGICAL_OR"),
    Tuple("lit", <<"!">>, "LOGICAL_NOT") >>

AssignmentRules == <<
    Tuple("lit", <<"=">>, "SIMPLE_ASSIGN"),
    Tuple("[..]=", <<"+", "-", "*", "/">>, "COMPLEX_ASSIGN") >>

\* the categories of the two math rules exchanged
MathRulesSwapped == <<
    Tuple("[..]", <<"+", "-">>, "MULTIPLICATIVE_OPERATOR"),
    Tuple("[..]", <<"*", "/">>, "ADDITIVE_OPERATOR") >>

MathRules == <<
    Tuple("[..]", <<"+", "-">>, "ADDITIVE_OPERATOR"),
    Tuple("[..]", <<"*", "/">>, "MULTIPLICATIVE_OPERATOR") >>

\* the keywords in the order of their rules, each with its category
KeywordTable == <<
    [text |-> <<"l", "e", "t">>, type |-> "LET"],
    [text |-> <<"i", "f">>, type |-> "IF"],
    [text |-> <<"e", "l", "s", "e">>, type |-> "ELSE"],
    [text |-> <<"t", "r", "u", "e">>, type |-> "TRUE"],
    [text |-> <<"f", "a", "l", "s", "e">>, type |-> "FALSE"],
    [text |-> <<"n", "u", "l", "l">>, type |-> "NULL"],
    [text |-> <<"d", "e", "f">>, type |-> "DEF"],
    [text |-> <<"r", "e", "t", "u", "r", "n">>, type |-> "RETURN"],
    [text |-> <<"c", "l", "a", "s", "s">>, type |-> "CLASS"],
    [text |-> <<"t", "h", "i", "s">>, type |-> "THIS"],
    [text |-> <<"e", "x", "t", "e", "n", "d", "s">>, type |-> "EXTENDS"],
    [text |-> <<"s", "u", "p", "e", "r">>, type |-> "SUPER"],
    [text |-> <<"n", "e", "w">>, type |-> "NEW"],
    [text |-> <<"w", "h", "i", "l", "e">>, type |-> "WHILE"],
    [text |-> <<"d", "o">>, type |-> "DO"],
    [text |-> <<"f", "o", "r">>, type |-> "FOR"] >>

\* ^word for every keyword: the word boundaries left out
KeywordRulesUnanchored ==
    [i \in 1..Len(KeywordTable) |->
        Tuple("lit", KeywordTable[i].text, KeywordTable[i].type)]

\* ^\bword\b for every keyword
KeywordRules ==
    [i \in 1..Len(KeywordTable) |->
        Tuple("\\bkw\\b", KeywordTable[i].text, KeywordTable[i].type)]

LiteralRules == <<
    Tuple("\\d+", <<>>, "NUMBER"),
    Tuple("q[^q]*q", <<"\"">>, "STRING"),
    Tuple("q[^q]*q", <<"'">>, "STRING"),
    Tuple("\\w+", <<>>, "IDENTIFIER") >>

\* the rule table Spec, in its order
SpecRules ==
    IgnoreRules \o SymbolRules \o RelationalRules \o LogicalRules \o AssignmentRules
        \o MathRules \o KeywordRules \o LiteralRules

Range(s) == {s[i] : i \in 1..Len(s)}

\* ^\/\*[\s\S]*?\*\/ : "/*", then as little as possible up to the first "*/"
BlockCommentLen(s) ==
    IF ~HasPrefix(s, <<"/", "*">>) THEN 0
    ELSE LET ends == {j \in 3..(Len(s) - 1) : s[j] = "*" /\ s[j + 1] = "/"}
         IN  IF ends = {} THEN 0 ELSE Min(ends) + 1

\* ^q[^q]*q : a quote, any characters but the quote, the quote
QuotedLen(s, q) ==
    IF s = <<>> \/ s[1] # q THEN 0
    ELSE LET n == UntilLen(Tail(s), {q})
         IN  IF n + 2 <= Len(s) THEN n + 2 ELSE 0

\* ^\bkw\b : the word, not followed by a word character (the slice starts at
\* the cursor, so the leading \b sees the start of the text)
KeywordLen(s, kw) ==
    IF HasPrefix(s, kw) /\ (Len(s) = Len(kw) \/ s[Len(kw) + 1] \notin WordChar)
    THEN Len(kw) ELSE 0

\* pattern.FindString(input): the length of the match of rule regExp at the
\* start of s, 0 when there is none
FindLen(regExp, s) ==
    LET re == regExp.re
        text == regExp.text
    IN  CASE re = "\\s+" -> RunLen(s, Whitespace)
          [] re = "//.*" ->
                IF HasPrefix(s, text) THEN 2 + UntilLen(Drop(s, 2), {"\n"}) ELSE 0
          [] re = "/*...*/" -> BlockCommentLen(s)
          [] re = "lit" -> IF HasPrefix(s, text) THEN Len(text) ELSE 0
          [] re = "[..]=?" ->
                IF s # <<>> /\ s[1] \in Range(text)
                THEN (IF Len(s) >= 2 /\ s[2] = "=" THEN 2 ELSE 1) ELSE 0
          [] re = "[..]=" ->
                IF Len(s) >= 2 /\ s[1] \in Range(text) /\ s[2] = "=" THEN 2 ELSE 0
          [] re = "[..]" -> IF s # <<>> /\ s[1] \in Range(text) THEN 1 ELSE 0
          [] re = "\\bkw\\b" -> KeywordLen(s, text)
          [] re = "\\d+" -> RunLen(s, Digit)
          [] re = "q[^q]*q" -> QuotedLen(s, text[1])
          [] re = "\\w+" -> RunLen(s, WordChar)

\* match(): the matched text; the cursor moves by its length
match(regExp, s) == Take(s, FindLen(regExp, s))

hasMoreTokens(in, cur) == cur < Len(in)

\* the first rule of the table, in order, with a non-empty match; 0 if none
FirstRule(s) ==
    LET hits == {i \in 1..Len(SpecRules) : Len(match(SpecRules[i].RegEx, s)) > 0}
    IN  IF hits = {} THEN 0 ELSE Min(hits)

\* GetNextToken returning the IGNORE match as a token instead of going on
ScanEmitIgnore(in, cur) ==
    IF ~hasMoreTokens(in, cur)
    THEN [skip |-> FALSE, token |-> Token("EOF", <<>>), cursor |-> cur]
    ELSE LET s == Drop(in, cur)
             i == FirstRule(s)
         IN  IF i = 0
             THEN [skip |-> FALSE, token |-> Token("ERROR", <<>>), cursor |-> cur]
             ELSE LET tokenValue == match(SpecRules[i].RegEx, s)
                  IN  [skip |-> FALSE,
                       token |-> Token(SpecRules[i].Type, tokenValue),
                       cursor |-> cur + Len(tokenValue)]

\* GetNextToken going on after an IGNORE match without moving the cursor
ScanStuck(in, cur) ==
    IF ~hasMoreTokens(in, cur)
    THEN [skip |-> FALSE, token |-> Token("EOF", <<>>), cursor |-> cur]
    ELSE LET s == Drop(in, cur)
             i == FirstRule(s)
         IN  IF i = 0
             THEN [skip |-> FALSE, token |-> Token("ERROR", <<>>), cursor |-> cur]
             ELSE LET tokenValue == match(SpecRules[i].RegEx, s)
                  IN  IF SpecRules[i].Type = "IGNORE"
                      THEN [skip |-> TRUE, cursor |-> cur]
                      ELSE [skip |-> FALSE,
                            token |-> Token(SpecRules[i].Type, tokenValue),
                            cursor |-> cur + Len(tokenValue)]

\* One invocation of GetNextToken at cursor cur: what it does before it either
\* returns or calls itself again.
\*   [skip |-> TRUE, cursor]          an IGNORE rule matched: recursive call
\*   [skip |-> FALSE, token, cursor]  the token returned
Scan(in, cur) ==
    IF ~hasMoreTokens(in, cur)
    THEN [skip |-> FALSE, token |-> Token("EOF", <<>>), cursor |-> cur]
    ELSE LET s == Drop(in, cur)
             i == FirstRule(s)
         IN  IF i = 0
             THEN [skip |-> FALSE, token |-> Token("ERROR", <<>>), cursor |-> cur]
             ELSE LET tokenValue == match(SpecRules[i].RegEx, s)
                  IN  IF SpecRules[i].Type = "IGNORE"
                      THEN [skip |-> TRUE, cursor |-> cur + Len(tokenValue)]
                      ELSE [skip |-> FALSE,
                            token |-> Token(SpecRules[i].Type, tokenValue),
                            cursor |-> cur + Len(tokenValue)]

----------------------------------------------------------------------------
(* strconv.ParseInt(s, 0, 64) on a digit run                               *)

DigitVal(c) == (CHOOSE i \in 1..Len(Digits) : Digits[i] = c) - 1

RECURSIVE ValueIn(_, _)
\* the value of the digits s in the given base
ValueIn(s, base) ==
    IF s = <<>> THEN 0
    ELSE ValueIn(Take(s, Len(s) - 1), base) * base + DigitVal(s[Len(s)])

RECURSIVE LeqDigits(_, _)
\* s <= t for digit runs of one length
LeqDigits(s, t) ==
    IF s = <<>> THEN TRUE
    ELSE IF DigitVal(Head(s)) # DigitVal(Head(t)) THEN DigitVal(Head(s)) < DigitVal(Head(t))
    ELSE LeqDigits(Tail(s), Tail(t))

\* 1<<63 - 1 in decimal
MaxInt64Digits == <<"9", "2", "2", "3", "3", "7", "2", "0", "3", "6", "8", "5", "4",
                    "7", "7", "5", "8", "0", "7">>

\* base 0: a leading "0" before more digits selects base 8 (the digit run
\* holds no x, b, o or _); a digit outside the base is a syntax error and a
\* value past 1<<63 - 1 a range error
ParseInt(s) ==
    LET octal == Len(s) > 1 /\ s[1] = "0"
        body == IF octal THEN Tail(s) ELSE s
        base == IF octal THEN 8 ELSE 10
        sig == Drop(body, RunLen(body, {"0"}))
        syntaxOK == \A i \in 1..Len(body) : DigitVal(body[i]) < base
        rangeOK == IF octal THEN Len(sig) <= 21
                   ELSE \/ Len(sig) < Len(MaxInt64Digits)
                        \/ Len(sig) = Len(MaxInt64Digits) /\ LeqDigits(sig, MaxInt64Digits)
    IN  IF ~syntaxOK THEN [ok |-> FALSE, err |-> "invalid syntax"]
        ELSE IF ~rangeOK THEN [ok |-> FALSE, err |-> "value out of range"]
        ELSE [ok |-> TRUE, value |-> ValueIn(body, base)]

----------------------------------------------------------------------------
(* The machine: call stack, jumps, panics                                  *)

GNT == <<"GetNextToken", "entry">>

Done == <<"halt", "done">>

Panicked == <<"halt", "panic">>

\* an activation's locals: where it returns to, its running left operand /
\* object / callee, its pending operator, its argument list; mark is history:
\* eats when the activation, or the current iteration of its loop, began
Frame(retpc, mark) ==
    [retpc |-> retpc, left |-> Nil, op |-> <<>>, args |-> <<>>, mark |-> mark]

Top == Head(stack)

WithTop(f) == <<f>> \o Tail(stack)

\* a new activation above stk that begins with n tokens eaten
PushAt(retpc, stk, n) == <<Frame(retpc, n)>> \o stk

\* a new activation entered by the running step
Push(retpc, stk) == PushAt(retpc, stk, eats)

\* a new activation entered once the running step's eat() is done
PushEaten(retpc, stk) == PushAt(retpc, stk, eats + 1)

\* the running activation with its locals changed, beginning an iteration
Iterate(f) == WithTop([f EXCEPT !.mark = eats])

Jump(p, stk, r) ==
    /\ pc' = p
    /\ stack' = stk
    /\ ret' = r
    /\ UNCHANGED <<input, cursor, lookAhead, cont, eaten, statements, outcome,
                   tokens, skipped, mode, pass, first, eats, stmtMark>>

\* call the function at entry; it returns to retpc
Call(entry, retpc, stk) == Jump(entry, Push(retpc, stk), ret)

\* return v to the caller
Return(v) == Jump(Top.retpc, Tail(stack), v)

\* panic(...): the parse is abandoned
panic(text) ==
    /\ pc' = Panicked
    /\ outcome' = [kind |-> "panic", text |-> text]
    /\ UNCHANGED <<input, cursor, lookAhead, cont, stack, ret, eaten, statements,
                   tokens, skipped, mode, pass, first, eats, stmtMark>>

\* eat(tokenType): panic on end of input or on another category; otherwise
\* fetch the next token into lookAhead and go on at K with stack stk and
\* value r (eaten is the token eat returns)
eat(tokenType, K, stk, r) ==
    IF lookAhead.Type = "EOF"
    THEN panic(<<"Unexpected end of input, expected: ", TokenNames[Iota(tokenType) + 1]>>)
    ELSE IF lookAhead.Type # tokenType
    THEN panic(<<"Unexpected token: ", TokenNames[Iota(lookAhead.Type) + 1],
                 ", expected: ", TokenNames[Iota(tokenType) + 1]>>)
    ELSE /\ pc' = GNT
         /\ cont' = K
         /\ eaten' = lookAhead
         /\ stack' = stk
         /\ ret' = r
         /\ eats' = eats + 1
         /\ UNCHANGED <<input, cursor, lookAhead, statements, outcome, tokens,
                        skipped, mode, pass, first, stmtMark>>

----------------------------------------------------------------------------
(* tokenizer.go: GetNextToken, one invocation per step                     *)

GetNextToken ==
    /\ pc = GNT
    /\ LET r == Scan(input, cursor)
       IN  /\ cursor' = r.cursor
           /\ IF r.skip
              THEN /\ skipped' = Append(skipped, [from |-> cursor, to |-> r.cursor])
                   /\ UNCHANGED <<pc, lookAhead, tokens>>
              ELSE /\ pc' = cont
                   /\ lookAhead' = IF mode = "lex" THEN lookAhead ELSE r.token
                   /\ tokens' = Append(tokens, [Type |-> r.token.Type,
                                                Value |-> r.token.Value,
                                                from |-> cursor, to |-> r.cursor])
                   /\ UNCHANGED skipped
    /\ UNCHANGED <<input, cont, stack, ret, eaten, statements, outcome, mode,
                   pass, first, eats, stmtMark>>

\* a caller of the tokenizer alone: GetNextToken until EOF or ERROR comes back
client ==
    /\ pc = <<"client", "call">>
    /\ IF tokens # <<>> /\ tokens[Len(tokens)].Type \in {"EOF", "ERROR"}
       THEN /\ pc' = Done
            /\ outcome' = [kind |-> "tokens"]
            /\ UNCHANGED cont
       ELSE /\ pc' = GNT
            /\ cont' = <<"client", "call">>
            /\ UNCHANGED outcome
    /\ UNCHANGED <<input, cursor, lookAhead, stack, ret, eaten, statements,
                   tokens, skipped, mode, pass, first, eats, stmtMark>>

----------------------------------------------------------------------------
(* parser.go                                                               *)

\* Parse: lookAhead = GetNextToken(); program() -> statementList(EOF)
Parse ==
    /\ pc = <<"Parse", "entry">>
    /\ pc' = GNT
    /\ cont' = <<"statementList", "loop">>
    /\ statements' = <<>>
    /\ UNCHANGED <<input, cursor, lookAhead, stack, ret, eaten, outcome, tokens,
                   skipped, mode, pass, first, eats, stmtMark>>

\* the statement loop stopping at an ERROR token as it does at EOF
statementList_loopStopsAtError ==
    /\ pc = <<"statementList", "loop">>
    /\ IF lookAhead.Type \notin {"EOF", "ERROR"}
       THEN /\ pc' = <<"assignmentExpression", "entry">>
            /\ stack' = Push(<<"statementList", "append">>, stack)
            /\ stmtMark' = eats
            /\ UNCHANGED outcome
       ELSE /\ pc' = Done
            /\ outcome' = Program(statements)
            /\ UNCHANGED <<stack, stmtMark>>
    /\ UNCHANGED <<input, cursor, lookAhead, cont, ret, eaten, statements, tokens,
                   skipped, mode, pass, first, eats>>

\* for p.lookAhead.Type != stopLookAhead { ... p.statement() }; at EOF the
\* Program is returned
statementList_loop ==
    /\ pc = <<"statementList", "loop">>
    /\ IF lookAhead.Type # "EOF"
       THEN /\ pc' = <<"assignmentExpression", "entry">>
            /\ stack' = Push(<<"statementList", "append">>, stack)
            /\ stmtMark' = eats
            /\ UNCHANGED outcome
       ELSE /\ pc' = Done
            /\ outcome' = Program(statements)
            /\ UNCHANGED <<stack, stmtMark>>
    /\ UNCHANGED <<input, cursor, lookAhead, cont, ret, eaten, statements, tokens,
                   skipped, mode, pass, first, eats>>

\* statements = append(statements, <ExpressionStatement of the expression>)
statementList_append ==
    /\ pc = <<"statementList", "append">>
    /\ pc' = <<"statementList", "loop">>
    /\ statements' = Append(statements, ExpressionStatement(ret))
    /\ UNCHANGED <<input, cursor, lookAhead, cont, stack, ret, eaten, outcome,
                   tokens, skipped, mode, pass, first, eats, stmtMark>>

isAssignmentOperator(operator) ==
    operator = "SIMPLE_ASSIGN" \/ operator = "COMPLEX_ASSIGN"

\* the category assignmentOperator() eats
assignmentOperator ==
    IF lookAhead.Type = "SIMPLE_ASSIGN" THEN "SIMPLE_ASSIGN" ELSE "COMPLEX_ASSIGN"

\* the right side parsed as a logical-or expression, not as an assignment
assignmentExpressionFlat ==
    \/ /\ pc = <<"assignmentExpression", "entry">>
       /\ Call(<<"logicalOrExpression", "entry">>, <<"assignmentExpression", "left">>, stack)
    \/ /\ pc = <<"assignmentExpression", "left">>
       /\ IF ~isAssignmentOperator(lookAhead.Type)
          THEN Return(ret)
          ELSE eat(assignmentOperator, <<"logicalOrExpression", "entry">>,
                   PushEaten(<<"assignmentExpression", "right">>,
                             Iterate([Top EXCEPT !.left = ret, !.op = lookAhead.Value])),
                   ret)
    \/ /\ pc = <<"assignmentExpression", "right">>
       /\ Return(AssignmentExpression(Top.op, Top.left, ret))

assignmentExpression ==
    \/ /\ pc = <<"assignmentExpression", "entry">>
       /\ Call(<<"logicalOrExpression", "entry">>, <<"assignmentExpression", "left">>, stack)
    \/ /\ pc = <<"assignmentExpression", "left">>
       /\ IF ~isAssignmentOperator(lookAhead.Type)
          THEN Return(ret)
          ELSE eat(assignmentOperator, <<"assignmentExpression", "entry">>,
                   PushEaten(<<"assignmentExpression", "right">>,
                             Iterate([Top EXCEPT !.left = ret, !.op = lookAhead.Value])),
                   ret)
    \/ /\ pc = <<"assignmentExpression", "right">>
       /\ Return(AssignmentExpression(Top.op, Top.left, ret))

\* left := operand(); for lookAhead.Type == type { operator := eat(type).Value;
\* left = node{operator, left, operand()} }; return left
BinaryLevel(fn, operand, type, node) ==
    LET loop(left) ==
            IF lookAhead.Type = type
            THEN eat(type, <<operand, "entry">>,
                     PushEaten(<<fn, "right">>,
                               Iterate([Top EXCEPT !.left = left, !.op = lookAhead.Value])),
                     ret)
            ELSE Return(left)
    IN  \/ /\ pc = <<fn, "entry">>
           /\ Call(<<operand, "entry">>, <<fn, "left">>, stack)
        \/ /\ pc = <<fn, "left">>
           /\ loop(ret)
        \/ /\ pc = <<fn, "right">>
           /\ loop(IF node = "LogicalExpression"
                   THEN LogicalExpression(Top.op, Top.left, ret)
                   ELSE BinaryExpression(Top.op, Top.left, ret))

logicalOrExpression ==
    BinaryLevel("logicalOrExpression", "logicalAndExpression", "LOGICAL_OR",
                "LogicalExpression")

logicalAndExpression ==
    BinaryLevel("logicalAndExpression", "equality", "LOGICAL_AND", "LogicalExpression")

equality ==
    BinaryLevel("equality", "comparison", "EQUALITY_OPERATOR", "LogicalExpression")

comparison ==
    BinaryLevel("comparison", "term", "RELATIONAL_OPERATOR", "BinaryExpression")

term == BinaryLevel("term", "factor", "ADDITIVE_OPERATOR", "BinaryExpression")

factor == BinaryLevel("factor", "unary", "MULTIPLICATIVE_OPERATOR", "BinaryExpression")

\* unary: a prefix operator and unary again, or leftHandSideExp (callMemberExp)
unary ==
    \/ /\ pc = <<"unary", "entry">>
       /\ IF lookAhead.Type \in {"ADDITIVE_OPERATOR", "LOGICAL_NOT"}
          THEN eat(lookAhead.Type, <<"unary", "entry">>,
                   PushEaten(<<"unary", "right">>,
                             WithTop([Top EXCEPT !.op = lookAhead.Value])),
                   ret)
          ELSE Jump(<<"callMemberExp", "entry">>, stack, ret)
    \/ /\ pc = <<"unary", "right">>
       /\ Return(UnaryExpression(Top.op, ret))

callMemberExp ==
    \/ /\ pc = <<"callMemberExp", "entry">>
       /\ IF lookAhead.Type = "SUPER"
          THEN eat("SUPER", <<"callExpression", "entry">>,
                   WithTop([Top EXCEPT !.left = SuperExpression]), ret)
          ELSE Call(<<"memberExp", "entry">>, <<"callMemberExp", "member">>, stack)
    \/ /\ pc = <<"callMemberExp", "member">>
       /\ IF lookAhead.Type = "LPAREN"
          THEN Jump(<<"callExpression", "entry">>, WithTop([Top EXCEPT !.left = ret]), ret)
          ELSE Return(ret)

memberExp ==
    LET loop(object) ==
            IF lookAhead.Type = "DOT"
            THEN eat("DOT", <<"memberExp", "property">>,
                     Iterate([Top EXCEPT !.left = object]), ret)
            ELSE IF lookAhead.Type = "LBRACKET"
            THEN eat("LBRACKET", <<"assignmentExpression", "entry">>,
                     PushEaten(<<"memberExp", "computed">>,
                               Iterate([Top EXCEPT !.left = object])),
                     ret)
            ELSE Return(object)
    IN  \/ /\ pc = <<"memberExp", "entry">>
           /\ Call(<<"primary", "entry">>, <<"memberExp", "object">>, stack)
        \/ /\ pc = <<"memberExp", "object">>
           /\ loop(ret)
        \/ /\ pc = <<"memberExp", "property">>
           /\ eat("IDENTIFIER", <<"memberExp", "loop">>,
                  WithTop([Top EXCEPT !.left =
                      MemberExpression(Top.left, Identifier(lookAhead.Value), FALSE)]),
                  ret)
        \/ /\ pc = <<"memberExp", "computed">>
           /\ eat("RBRACKET", <<"memberExp", "loop">>,
                  WithTop([Top EXCEPT !.left = MemberExpression(Top.left, ret, TRUE)]),
                  ret)
        \/ /\ pc = <<"memberExp", "loop">>
           /\ loop(Top.left)

\* callExpression(callee): the callee is the activation's left
callExpression ==
    \/ /\ pc = <<"callExpression", "entry">>
       /\ Call(<<"arguments", "entry">>, <<"callExpression", "arguments">>, stack)
    \/ /\ pc = <<"callExpression", "arguments">>
       /\ LET call == CallExpression(Top.left, ret.List)
          IN  IF lookAhead.Type = "LPAREN"
              THEN Jump(<<"callExpression", "entry">>, Iterate([Top EXCEPT !.left = call]), ret)
              ELSE Return(call)

arguments ==
    \/ /\ pc = <<"arguments", "entry">>
       /\ eat("LPAREN", <<"arguments", "open">>, stack, ret)
    \/ /\ pc = <<"arguments", "open">>
       /\ IF lookAhead.Type # "RPAREN"
          THEN Call(<<"argumentList", "entry">>, <<"arguments", "close">>, stack)
          ELSE eat("RPAREN", Top.retpc, Tail(stack), Expressions(<<>>))
    \/ /\ pc = <<"arguments", "close">>
       /\ eat("RPAREN", Top.retpc, Tail(stack), ret)

argumentList ==
    \/ /\ pc = <<"argumentList", "entry">>
       /\ Call(<<"assignmentExpression", "entry">>, <<"argumentList", "append">>, stack)
    \/ /\ pc = <<"argumentList", "append">>
       /\ LET list == Append(Top.args, ret)
          IN  IF lookAhead.Type = "COMMA"
              THEN eat("COMMA", <<"assignmentExpression", "entry">>,
                       PushEaten(<<"argumentList", "append">>,
                                 Iterate([Top EXCEPT !.args = list])),
                       ret)
              ELSE Return(Expressions(list))

isLiteral(tokenType) ==
    \/ tokenType = "NUMBER"
    \/ tokenType = "STRING"
    \/ tokenType = "TRUE"
    \/ tokenType = "FALSE"
    \/ tokenType = "NULL"

\* literal(): eat the literal's token and return its node to primary's caller
literal ==
    CASE lookAhead.Type = "NUMBER" -> eat("NUMBER", <<"literal", "number">>, stack, ret)
      [] lookAhead.Type = "STRING" ->
            eat("STRING", Top.retpc, Tail(stack), StringLiteral(lookAhead.Value))
      [] lookAhead.Type = "TRUE" ->
            eat("TRUE", Top.retpc, Tail(stack), BooleanLiteral(TRUE))
      [] lookAhead.Type = "FALSE" ->
            eat("FALSE", Top.retpc, Tail(stack), BooleanLiteral(FALSE))
      [] lookAhead.Type = "NULL" -> eat("NULL", Top.retpc, Tail(stack), NullLiteral)
      [] OTHER -> panic(<<"Literal: unexpected literal production.">>)

\* the NUMBER case after eat: strconv.ParseInt of the token's text
literal_number ==
    /\ pc = <<"literal", "number">>
    /\ LET r == ParseInt(eaten.Value)
       IN  IF r.ok THEN Return(NumericLiteral(r.value))
           ELSE panic(<<"strconv.ParseInt: ", r.err>>)

primary ==
    \/ /\ pc = <<"primary", "entry">>
       /\ IF isLiteral(lookAhead.Type) THEN literal
          ELSE CASE lookAhead.Type = "LPAREN" ->
                      eat("LPAREN", <<"assignmentExpression", "entry">>,
                          PushEaten(<<"primary", "group">>, stack), ret)
                 [] lookAhead.Type = "IDENTIFIER" ->
                      eat("IDENTIFIER", Top.retpc, Tail(stack), Identifier(lookAhead.Value))
                 [] lookAhead.Type = "THIS" ->
                      eat("THIS", Top.retpc, Tail(stack), ThisExpression)
                 [] lookAhead.Type = "NEW" ->
                      eat("NEW", <<"memberExp", "entry">>,
                          PushEaten(<<"primary", "callee">>, stack), ret)
                 [] OTHER -> panic(<<"Unexpected primary expression.">>)
    \/ /\ pc = <<"primary", "group">>
       /\ eat("RPAREN", Top.retpc, Tail(stack), ret)
    \/ /\ pc = <<"primary", "callee">>
       /\ Jump(<<"arguments", "entry">>,
               Push(<<"primary", "new">>, WithTop([Top EXCEPT !.left = ret])), ret)
    \/ /\ pc = <<"primary", "new">>
       /\ Return(NewExpression(Top.left, ret.List))

----------------------------------------------------------------------------
(* main.go: New(input), Parse(), ToString(); the rendering is parsed again *)

\* parser.New(source) / tokenizer.New(source): the fields of a new parser and
\* tokenizer, with the histories empty
New(source, m, p, f) ==
    [input |-> source,
     cursor |-> 0,
     lookAhead |-> Token("EOF", <<>>),
     pc |-> IF m = "lex" THEN <<"client", "call">> ELSE <<"Parse", "entry">>,
     mode |-> m,
     pass |-> p,
     first |-> f]

\* the text main prints is given to a new parser
Reparse ==
    /\ pc = Done
    /\ mode = "reparse"
    /\ pass = 1
    /\ LET n == New(ToStringOf(outcome), "reparse", 2,
                    [input |-> input, program |-> outcome, tokens |-> tokens,
                     skipped |-> skipped])
       IN  /\ input' = n.input
           /\ cursor' = n.cursor
           /\ lookAhead' = n.lookAhead
           /\ pc' = n.pc
           /\ mode' = n.mode
           /\ pass' = n.pass
           /\ first' = n.first
    /\ cont' = <<"none", "none">>
    /\ stack' = <<>>
    /\ ret' = Nil
    /\ eaten' = Token("EOF", <<>>)
    /\ statements' = <<>>
    /\ outcome' = [kind |-> "running"]
    /\ tokens' = <<>>
    /\ skipped' = <<>>
    /\ eats' = 0
    /\ stmtMark' = 0

----------------------------------------------------------------------------
(* Sources                                                                 *)

\* main.go's input
mainInput ==
    <<"a", ".", "b", ".", "c", ".", "d", ".", "e", ".", "f", ".", "g", "[",
      "h", "]", ".", "i", ".", "j", ".", "k", ".", "f", "u", "n", "c", "i",
      "o", "n", "(", ")", "(", ")", "(", ")", "(", ")", "(", ")", "(", ")",
      "(", "a", ",", " ", "b", ",", " ", "c", ")">>

\* super(1)(x)
srcSuper ==
    <<"s", "u", "p", "e", "r", "(", "1", ")", "(", "x", ")">>

\* new a.b(1, 's')
srcNew ==
    <<"n", "e", "w", " ", "a", ".", "b", "(", "1", ",", " ", "'", "s", "'",
      ")">>

\* this.x = !y || z && 1 == 2 < 3 + 4 * 5
srcOperators ==
    <<"t", "h", "i", "s", ".", "x", " ", "=", " ", "!", "y", " ", "|", "|",
      " ", "z", " ", "&", "&", " ", "1", " ", "=", "=", " ", "2", " ", "<",
      " ", "3", " ", "+", " ", "4", " ", "*", " ", "5">>

\* (a()).b
srcGroupedCall ==
    <<"(", "a", "(", ")", ")", ".", "b">>

\* true false null 010 "s"
srcLiterals ==
    <<"t", "r", "u", "e", " ", "f", "a", "l", "s", "e", " ", "n", "u", "l",
      "l", " ", "0", "1", "0", " ", "\"", "s", "\"">>

\* 09
srcBadOctal ==
    <<"0", "9">>

\* 1 /* c */ + // c<newline> 2
srcComments ==
    <<"1", " ", "/", "*", " ", "c", " ", "*", "/", " ", "+", " ", "/", "/",
      " ", "c", "\n", " ", "2">>

\* let letter = 5
srcLetLetter ==
    <<"l", "e", "t", " ", "l", "e", "t", "t", "e", "r", " ", "=", " ", "5">>

\* lettuce
srcLettuce ==
    <<"l", "e", "t", "t", "u", "c", "e">>

\* f(
srcOpenCall ==
    <<"f", "(">>

\* f(a
srcOpenCallArg ==
    <<"f", "(", "a">>

\* a @
srcNoRule ==
    <<"a", " ", "@">>

Run(src, m) == [src |-> src, mode |-> m]

\* concrete sources that take the machine through every function
BaseRuns ==
    {Run(s, "reparse") : s \in {mainInput, srcSuper, srcNew, srcOperators, srcGroupedCall,
                                srcLiterals, srcBadOctal, srcComments, srcOpenCall,
                                srcOpenCallArg, srcNoRule, <<>>}}
    \cup {Run(s, "lex") : s \in {srcComments, srcLetLetter, srcLettuce, srcNoRule}}

\* all sequences over S of length at most n
SeqsUpTo(S, n) == UNION {[1..k -> S] : k \in 0..n}

\* Postfix forms after a primary: .b  [c]  ()  (d, e)
MaxPostfix == 3

PostfixForms ==
    {[text |-> <<".", "b">>, form |-> "dot"],
     [text |-> <<"[", "c", "]">>, form |-> "bracket"],
     [text |-> <<"(", ")">>, form |-> "call"],
     [text |-> <<"(", "d", ",", " ", "e", ")">>, form |-> "call2"]}

PostfixSeqs == SeqsUpTo(PostfixForms, MaxPostfix)

PostfixText(ps) == Cat([i \in 1..Len(ps) |-> ps[i].text])

\* the primary a followed by the postfix forms ps
ChainText(ps) == <<"a">> \o PostfixText(ps)

ChainRuns == {Run(ChainText(ps), "parse") : ps \in PostfixSeqs}

\* a parenthesised chain followed by postfix forms: (a ps) qs
MaxGrouped == 2

GroupedChainRuns ==
    {Run(<<"(", "a">> \o PostfixText(ps) \o <<")">> \o PostfixText(qs), "reparse") :
        ps \in SeqsUpTo(PostfixForms, MaxGrouped), qs \in SeqsUpTo(PostfixForms, 1)}

\* f(a, g(b), (c))
srcNestedCall ==
    <<"f", "(", "a", ",", " ", "g", "(", "b", ")", ",", " ", "(", "c", ")", ")">>

\* the sources that end inside the argument list of the call f( ... : the
\* prefixes of srcNestedCall that hold the "(" and not the matching ")"
OpenCallSources == {Take(srcNestedCall, n) : n \in 2..(Len(srcNestedCall) - 1)}

OpenCallRuns == {Run(s, "parse") : s \in OpenCallSources}

\* Operator chains without parentheses: a op1 b op2 c ...
MaxOps == 2

OperandNames == <<"a", "b", "c", "d", "e", "f", "g">>

Operand(i) == <<OperandNames[i]>>

\* the operands a, b, c ... joined by the operators ops
OpChainText(ops) ==
    Operand(1) \o Cat([i \in 1..Len(ops) |-> ops[i] \o Operand(i + 1)])

PrecOps ==
    {<<"*">>, <<"/">>, <<"+">>, <<"-">>, <<"<">>, <<">", "=">>, <<"=", "=">>,
     <<"!", "=">>, <<"&", "&">>, <<"|", "|">>, <<"=">>, <<"+", "=">>}

\* 1+2*3
srcOnePlusTwoTimesThree == <<"1", "+", "2", "*", "3">>

PrecRuns ==
    {Run(OpChainText(ops), "parse") : ops \in SeqsUpTo(PrecOps, MaxOps)}
    \cup {Run(srcOnePlusTwoTimesThree, "parse")}

\* Assignment chains a op1 b op2 c ... and prefix stacks u1 u2 ... a
MaxAssign == 3

AssignOps == {<<"=">>, <<"+", "=">>, <<"-", "=">>, <<"*", "=">>, <<"/", "=">>}

AssignSeqs == SeqsUpTo(AssignOps, MaxAssign)

MaxPrefix == 3

PrefixOps == {<<"+">>, <<"-">>, <<"!">>}

PrefixSeqs == SeqsUpTo(PrefixOps, MaxPrefix)

PrefixText(us) == Cat(us) \o Operand(1)

AssocRuns ==
    {Run(OpChainText(ops), "parse") : ops \in AssignSeqs}
    \cup {Run(PrefixText(us), "parse") : us \in PrefixSeqs}

\* Words: every source over a few word characters and a blank, and every
\* keyword alone, extended on either side, and next to another word
MaxWord == 4

WordAlphabet == {"l", "e", "t", "1", "_", " "}

KeywordSources ==
    UNION {LET kw == KeywordTable[i].text
           IN  {kw, kw \o <<"s">>, <<"s">> \o kw, kw \o <<"1">>, <<"_">> \o kw,
                kw \o <<" ">> \o kw, <<"x", ".">> \o kw \o <<"(", ")">>,
                <<"'">> \o kw \o <<"'">>, <<"/", "*">> \o kw \o <<"*", "/">>}
           : i \in 1..Len(KeywordTable)}

WordRuns ==
    {Run(s, "lex") : s \in SeqsUpTo(WordAlphabet, MaxWord) \cup KeywordSources}

\* Insignificant input: every source over a digit, blanks and the comment
\* characters, and a few sources with strings and words
MaxSkip == 5

SkipAlphabet == {"1", " ", "\n", "/", "*"}

\* 'a b' /*x*/ "//c" a//b
srcStringsAndComments ==
    <<"'", "a", " ", "b", "'", " ", "/", "*", "x", "*", "/", " ", "\"", "/",
      "/", "c", "\"", " ", "a", "/", "/", "b">>

\* let/**/x = 1//
srcKeywordComment ==
    <<"l", "e", "t", "/", "*", "*", "/", "x", " ", "=", " ", "1", "/", "/">>

SkipRuns ==
    {Run(s, "lex") : s \in SeqsUpTo(SkipAlphabet, MaxSkip)
                            \cup {srcStringsAndComments, srcKeywordComment}}

\* 's'
srcSingleQuoted == <<"'", "s", "'">>

\* "s t"
srcDoubleQuoted == <<"\"", "s", " ", "t", "\"">>

\* f('a', "b")['c']
srcStringArguments ==
    <<"f", "(", "'", "a", "'", ",", " ", "\"", "b", "\"", ")", "[", "'", "c",
      "'", "]">>

StringRuns ==
    {Run(s, "parse") : s \in {srcSingleQuoted, srcDoubleQuoted, srcStringArguments}}

\* Lexical failures: every source over a few token characters and two
\* characters no rule matches
MaxErr == 4

ErrAlphabet == {"a", "+", "(", "@", "\"", " "}

ErrRuns == {Run(s, "parse") : s \in SeqsUpTo(ErrAlphabet, MaxErr)}

\* Termination: every source over the characters of calls, operators,
\* assignments and blanks
MaxTerm == 2

TermAlphabet == {"a", "(", ")", ",", "=", " "}

TermRuns ==
    {Run(s, "parse") : s \in SeqsUpTo(TermAlphabet, MaxTerm) \cup {srcNestedCall}}

\* Numbers: every digit run over a few digits, alone and as an operand
MaxDigits == 3

DigitAlphabet == {"0", "1", "7", "9"}

DigitRuns == SeqsUpTo(DigitAlphabet, MaxDigits) \ {<<>>}

NumberRuns ==
    {Run(s, "parse") : s \in DigitRuns}
    \cup {Run(<<"a", "+">> \o s, "parse") : s \in DigitRuns}

----------------------------------------------------------------------------
(* Specifications                                                          *)

InitWith(runs) ==
    \E r \in runs :
        LET n == New(r.src, r.mode, 1, Nil)
        IN  /\ input = n.input
            /\ cursor = n.cursor
            /\ lookAhead = n.lookAhead
            /\ pc = n.pc
            /\ mode = n.mode
            /\ pass = n.pass
            /\ first = n.first
            /\ cont = <<"none", "none">>
            /\ stack = <<>>
            /\ ret = Nil
            /\ eaten = Token("EOF", <<>>)
            /\ statements = <<>>
            /\ outcome = [kind |-> "running"]
            /\ tokens = <<>>
            /\ skipped = <<>>
            /\ eats = 0
            /\ stmtMark = 0

Init == InitWith(BaseRuns)

Next ==
    \/ GetNextToken
    \/ client
    \/ Parse
    \/ statementList_loop
    \/ statementList_append
    \/ assignmentExpression
    \/ logicalOrExpression
    \/ logicalAndExpression
    \/ equality
    \/ comparison
    \/ term
    \/ factor
    \/ unary
    \/ callMemberExp
    \/ memberExp
    \/ callExpression
    \/ arguments
    \/ argumentList
    \/ literal_number
    \/ primary
    \/ Reparse

Spec == Init /\ [][Next]_vars

InitChains == InitWith(BaseRuns \cup ChainRuns \cup GroupedChainRuns \cup OpenCallRuns)

SpecChains == InitChains /\ [][Next]_vars

InitPrec == InitWith(BaseRuns \cup PrecRuns)

SpecPrec == InitPrec /\ [][Next]_vars

InitAssoc == InitWith(BaseRuns \cup AssocRuns)

SpecAssoc == InitAssoc /\ [][Next]_vars

InitWords == InitWith(BaseRuns \cup WordRuns)

SpecWords == InitWords /\ [][Next]_vars

InitSkip == InitWith(BaseRuns \cup SkipRuns)

SpecSkip == InitSkip /\ [][Next]_vars

InitStrings == InitWith(BaseRuns \cup StringRuns)

SpecStrings == InitStrings /\ [][Next]_vars

InitErr == InitWith(BaseRuns \cup ErrRuns)

SpecErr == InitErr /\ [][Next]_vars

InitTerm == InitWith(BaseRuns \cup TermRuns)

\* the program is one thread that takes its next step as long as it has one
FairSpec == InitTerm /\ [][Next]_vars /\ WF_vars(Next)

InitNumbers == InitWith(BaseRuns \cup NumberRuns)

SpecNumbers == InitNumbers /\ [][Next]_vars

----------------------------------------------------------------------------
(* Shapes of trees                                                         *)

Halted == pc \in {Done, Panicked}

Returned == pc = Done /\ outcome.kind = "Program"

Aborted == pc = Panicked /\ outcome.kind = "panic"

RECURSIVE Pure(_)
\* e is built of identifiers, numbers, binary, logical and unary operators,
\* member accesses and calls only
Pure(e) ==
    LET k == e.kind
    IN  CASE k \in {"Identifier", "NumericLiteral"} -> TRUE
          [] k \in {"BinaryExpression", "LogicalExpression"} -> Pure(e.Left) /\ Pure(e.Right)
          [] k = "UnaryExpression" -> Pure(e.Right)
          [] k = "MemberExpression" -> Pure(e.Object) /\ Pure(e.Property)
          [] k = "CallExpression" ->
                Pure(e.Callee) /\ \A i \in 1..Len(e.Arguments) : Pure(e.Arguments[i])
          [] OTHER -> FALSE

\* a Program of one statement, a pure expression
SinglePure(program) ==
    /\ program.kind = "Program"
    /\ Len(program.Statements) = 1
    /\ Pure(program.Statements[1].Expression)

\* every skipped span of source src is whitespace (src holds no comment)
NoComments(src, spans) ==
    \A i \in 1..Len(spans) : src[spans[i].from + 1] \in Whitespace

RECURSIVE ChainTree(_, _)
\* the postfix forms ps wrapped left to right around node
ChainTree(node, ps) ==
    IF ps = <<>> THEN node
    ELSE LET f == Head(ps).form
             next == CASE f = "dot" -> MemberExpression(node, Identifier(<<"b">>), FALSE)
                       [] f = "bracket" -> MemberExpression(node, Identifier(<<"c">>), TRUE)
                       [] f = "call" -> CallExpression(node, <<>>)
                       [] f = "call2" ->
                            CallExpression(node, <<Identifier(<<"d">>), Identifier(<<"e">>)>>)
         IN  ChainTree(next, Tail(ps))

----------------------------------------------------------------------------
(* Claims                                                                  *)

\* C1 (as claimed): when the first parse returned a single pure expression of
\* a source without comments, parsing its rendering returns too, with the same
\* tree.
C1_RoundTrip ==
    (pass = 2 /\ Halted /\ SinglePure(first.program)
        /\ NoComments(first.input, first.skipped))
    => (Returned /\ outcome = first.program)

\* C2 (as claimed): a primary followed by any sequence of postfix forms parses
\* to the forms nested left to right, and renders them in the same order.
C2_ChainsParse ==
    \A ps \in PostfixSeqs :
        (pass = 1 /\ mode # "lex" /\ Halted /\ input = ChainText(ps))
        => /\ Returned
           /\ outcome = Program(<<ExpressionStatement(ChainTree(Identifier(<<"a">>), ps))>>)
           /\ ToStringOf(outcome) = ChainText(ps)

\* the category the panic message gives as expected, "" when it gives none
ExpectedIn(text) == IF Len(text) >= 2 THEN text[Len(text)] ELSE ""

\* C3 (as claimed): a source that ends inside a call's argument list aborts
\* with a message that names RPAREN as the expected category.
C3_OpenCallNamesRparen ==
    (pass = 1 /\ mode # "lex" /\ Halted /\ input \in OpenCallSources)
    => (Aborted /\ ExpectedIn(outcome.text) = "RPAREN")

\* the precedence level of a node: 0 assignment, 1 ||, 2 &&, 3 == !=,
\* 4 < > <= >=, 5 + -, 6 * /, 7 anything else
Level(e) ==
    LET k == e.kind
        op == e.Operator
    IN  CASE k = "AssignmentExpression" -> 0
          [] k = "LogicalExpression" /\ op = <<"|", "|">> -> 1
          [] k = "LogicalExpression" /\ op = <<"&", "&">> -> 2
          [] k = "LogicalExpression" /\ op \in {<<"=", "=">>, <<"!", "=">>} -> 3
          [] k = "BinaryExpression" /\ op \in {<<"<">>, <<">">>, <<"<", "=">>, <<">", "=">>} -> 4
          [] k = "BinaryExpression" /\ op \in {<<"+">>, <<"-">>} -> 5
          [] k = "BinaryExpression" /\ op \in {<<"*">>, <<"/">>} -> 6
          [] OTHER -> 7

RECURSIVE Grouped(_)
\* no operator node of e has a direct operand of a looser level
Grouped(e) ==
    LET k == e.kind
    IN  CASE k \in {"AssignmentExpression", "LogicalExpression", "BinaryExpression"} ->
                /\ Level(e.Left) >= Level(e)
                /\ Level(e.Right) >= Level(e)
                /\ Grouped(e.Left)
                /\ Grouped(e.Right)
          [] k = "UnaryExpression" -> Grouped(e.Right)
          [] k = "MemberExpression" -> Grouped(e.Object) /\ Grouped(e.Property)
          [] k \in {"CallExpression", "NewExpression"} ->
                Grouped(e.Callee) /\ \A i \in 1..Len(e.Arguments) : Grouped(e.Arguments[i])
          [] OTHER -> TRUE

\* C4: in the tree of an accepted source without parentheses no operator has a
\* direct operand of a looser level (* / over + - over < > <= >= over == !=
\* over && over || over assignment), and 1+2*3 renders (1+(2*3)).
C4_Precedence ==
    (pass = 1 /\ Returned /\ "(" \notin Range(input))
    => /\ \A i \in 1..Len(outcome.Statements) : Grouped(outcome.Statements[i].Expression)
       /\ input = srcOnePlusTwoTimesThree
            => ToStringOf(outcome) = <<"(", "1", "+", "(", "2", "*", "3", ")", ")">>

\* a + b * c was parsed to Binary(+, a, Binary(*, b, c))
C4_Witness ==
    /\ Returned
    /\ input = OpChainText(<< <<"+">>, <<"*">> >>)
    /\ outcome.Statements[1].Expression =
            BinaryExpression(<<"+">>, Identifier(<<"a">>),
                BinaryExpression(<<"*">>, Identifier(<<"b">>), Identifier(<<"c">>)))

RECURSIVE AssignTree(_, _)
\* operand i, assigned by the operators ops in turn the rest of the chain
AssignTree(ops, i) ==
    IF ops = <<>> THEN Identifier(Operand(i))
    ELSE AssignmentExpression(Head(ops), Identifier(Operand(i)), AssignTree(Tail(ops), i + 1))

RECURSIVE PrefixTree(_)
\* the prefix operators us applied to a, the first outermost
PrefixTree(us) ==
    IF us = <<>> THEN Identifier(Operand(1))
    ELSE UnaryExpression(Head(us), PrefixTree(Tail(us)))

\* C5: a chain of assignment operators nests to the right, and a stack of
\* prefix operators nests in source order with the first one outermost.
C5_RightAssociative ==
    (pass = 1 /\ mode = "parse" /\ Halted)
    => /\ \A ops \in AssignSeqs :
            input = OpChainText(ops)
            => Returned /\ outcome = Program(<<ExpressionStatement(AssignTree(ops, 1))>>)
       /\ \A us \in PrefixSeqs :
            input = PrefixText(us)
            => Returned /\ outcome = Program(<<ExpressionStatement(PrefixTree(us))>>)

\* a=b=c was parsed to Assignment(a, =, Assignment(b, =, c))
C5_Witness ==
    /\ Returned
    /\ input = <<"a", "=", "b", "=", "c">>
    /\ outcome.Statements[1].Expression =
            AssignmentExpression(<<"=">>, Identifier(<<"a">>),
                AssignmentExpression(<<"=">>, Identifier(<<"b">>), Identifier(<<"c">>)))

\* the positions (counted from 0) where a maximal run of word characters
\* that begins with a letter or an underscore starts
WordRunStarts(in) ==
    {p \in 0..(Len(in) - 1) :
        /\ in[p + 1] \in Letter \cup {"_"}
        /\ (p = 0 \/ in[p] \notin WordChar)}

\* the maximal run of word characters at position p
RunAt(in, p) == Take(Drop(in, p), RunLen(Drop(in, p), WordChar))

\* the category of a word: its keyword category, or IDENTIFIER
WordType(w) ==
    IF \E i \in 1..Len(KeywordTable) : KeywordTable[i].text = w
    THEN KeywordTable[CHOOSE i \in 1..Len(KeywordTable) : KeywordTable[i].text = w].type
    ELSE "IDENTIFIER"

\* position p lies in a skipped span or in a string token
InsideSpan(p) ==
    \/ \E i \in 1..Len(skipped) : skipped[i].from <= p /\ p < skipped[i].to
    \/ \E i \in 1..Len(tokens) :
            tokens[i].Type = "STRING" /\ tokens[i].from <= p /\ p < tokens[i].to

\* C6: every maximal run of word characters that begins with a letter or an
\* underscore and that the tokenizer has passed (outside strings and comments)
\* was returned as one token holding the whole run, of the keyword's category
\* when the run is a keyword and IDENTIFIER otherwise.
C6_KeywordBoundary ==
    \A p \in WordRunStarts(input) :
        (cursor > p /\ ~InsideSpan(p))
        => \E i \in 1..Len(tokens) :
                /\ tokens[i].from = p
                /\ tokens[i].Value = RunAt(input, p)
                /\ tokens[i].Type = WordType(RunAt(input, p))

\* "let letter = 5" gave LET(let) and then IDENTIFIER(letter)
C6_Witness ==
    /\ mode = "lex"
    /\ pc = Done
    /\ input = srcLetLetter
    /\ Len(tokens) >= 2
    /\ tokens[1].Type = "LET" /\ tokens[1].Value = <<"l", "e", "t">>
    /\ tokens[2].Type = "IDENTIFIER"
    /\ tokens[2].Value = <<"l", "e", "t", "t", "e", "r">>

RECURSIVE TokensFrom(_, _)
\* the tokens GetNextToken returns, called from cursor cur on until EOF or
\* ERROR comes back
TokensFrom(in, cur) ==
    LET r == Scan(in, cur)
    IN  IF r.skip THEN TokensFrom(in, r.cursor)
        ELSE IF r.token.Type \in {"EOF", "ERROR"} THEN <<r.token>>
        ELSE <<r.token>> \o TokensFrom(in, r.cursor)

\* the tokens returned so far, without their positions
Stream == [i \in 1..Len(tokens) |-> Token(tokens[i].Type, tokens[i].Value)]

\* source in with every span of spans replaced by with
Replaced(in, spans, with) ==
    Cat([p \in 1..Len(in) |->
            IF \E k \in 1..Len(spans) : spans[k].from + 1 = p THEN with
            ELSE IF \E k \in 1..Len(spans) : spans[k].from < p /\ p <= spans[k].to THEN <<>>
            ELSE <<in[p]>>])

\* no token is an IGNORE token and no token overlaps a skipped span
NoTokenOfSkipped ==
    \A i \in 1..Len(tokens) :
        /\ tokens[i].Type # "IGNORE"
        /\ \A k \in 1..Len(skipped) :
                tokens[i].to <= skipped[k].from \/ skipped[k].to <= tokens[i].from

\* "1 /* c */ + // c\n 2" gave exactly NUMBER(1), ADDITIVE_OPERATOR(+), NUMBER(2), EOF
CommentsExample ==
    Stream = <<Token("NUMBER", <<"1">>), Token("ADDITIVE_OPERATOR", <<"+">>),
               Token("NUMBER", <<"2">>), Token("EOF", <<>>)>>

\* C7 (as claimed): no token is or overlaps skipped input, and the token
\* stream is the stream of the source with the skipped spans removed.
C7_StreamOfSourceWithoutSkipped ==
    (mode = "lex" /\ pc = Done)
    => /\ NoTokenOfSkipped
       /\ Stream = TokensFrom(Replaced(input, skipped, <<>>), 0)

\* C7 (amended): no token is or overlaps skipped input, and the token stream
\* is the stream of the source with each skipped span replaced by one blank;
\* the example gives NUMBER(1), ADDITIVE_OPERATOR(+), NUMBER(2), EOF.
C7_StreamOfSourceWithBlanks ==
    /\ NoTokenOfSkipped
    /\ (mode = "lex" /\ pc = Done)
        => /\ Stream = TokensFrom(Replaced(input, skipped, <<" ">>), 0)
           /\ input = srcComments => CommentsExample

\* the example was tokenized, skipping six spans
C7_Witness ==
    /\ mode = "lex"
    /\ pc = Done
    /\ input = srcComments
    /\ Len(skipped) = 6
    /\ CommentsExample

RECURSIVE StringValues(_)
\* the values of the StringLiteral nodes of e, left to right
StringValues(e) ==
    LET k == e.kind
        each(es) == Cat([i \in 1..Len(es) |-> StringValues(es[i])])
    IN  CASE k = "StringLiteral" -> <<e.Value>>
          [] k = "Program" -> each(e.Statements)
          [] k = "ExpressionStatement" -> StringValues(e.Expression)
          [] k \in {"AssignmentExpression", "LogicalExpression", "BinaryExpression"} ->
                StringValues(e.Left) \o StringValues(e.Right)
          [] k = "UnaryExpression" -> StringValues(e.Right)
          [] k = "MemberExpression" -> StringValues(e.Object) \o StringValues(e.Property)
          [] k \in {"CallExpression", "NewExpression"} ->
                StringValues(e.Callee) \o each(e.Arguments)
          [] OTHER -> <<>>

\* the positions of the string tokens among the tokens returned
StringTokens == {i \in 1..Len(tokens) : tokens[i].Type = "STRING"}

RECURSIVE Inner(_, _)
\* the characters between the delimiters of the string tokens from i on
Inner(i, n) ==
    IF i > n THEN <<>>
    ELSE IF i \in StringTokens
    THEN <<SubSeq(tokens[i].Value, 2, Len(tokens[i].Value) - 1)>> \o Inner(i + 1, n)
    ELSE Inner(i + 1, n)

\* C8 (as claimed): the StringLiteral nodes of an accepted source hold, in
\* source order, the characters between the delimiters of its string tokens.
C8_QuotesStripped ==
    (pass = 1 /\ Returned) => StringValues(outcome) = Inner(1, Len(tokens))

\* position p of the source is one where no rule matches
NoRuleAt(p) == p < Len(input) /\ FirstRule(Drop(input, p)) = 0

\* C9: a GetNextToken call at a position where no rule matches returns ERROR
\* with empty text and leaves the cursor there, and from then on the parse
\* holds no Program and can only end aborted.
C9_LexErrorFatal ==
    \A i \in 1..Len(tokens) :
        NoRuleAt(tokens[i].from)
        => /\ tokens[i].Type = "ERROR"
           /\ tokens[i].Value = <<>>
           /\ tokens[i].to = tokens[i].from
           /\ cursor = tokens[i].from
           /\ mode # "lex" => /\ outcome.kind # "Program"
                              /\ Halted => Aborted

\* "a @": the parse aborted after IDENTIFIER(a) and an ERROR token at 2
C9_Witness ==
    /\ input = srcNoRule
    /\ mode # "lex"
    /\ Aborted
    /\ Len(tokens) = 2
    /\ tokens[2].Type = "ERROR"
    /\ tokens[2].from = 2
    /\ cursor = 2

\* where an iteration of an operator, member, call or argument loop ends
LoopEnds ==
    {<<fn, "right">> : fn \in {"logicalOrExpression", "logicalAndExpression", "equality",
                               "comparison", "term", "factor"}}
    \cup {<<"memberExp", "loop">>, <<"callExpression", "arguments">>,
          <<"argumentList", "append">>}

\* every iteration that ended has eaten a token since it began
LoopsConsume ==
    /\ pc \in LoopEnds => eats > Top.mark
    /\ pc = <<"statementList", "append">> => eats > stmtMark

\* a GetNextToken invocation that skips a span moves the cursor forward
SkipAdvances == (pc = GNT /\ pc' = GNT) => cursor' > cursor

\* C10: every run ends, returned or aborted, and stays so; each skipped span
\* moves the cursor forward; each loop iteration that ends has eaten a token.
C10_Terminates ==
    /\ <>[](Halted /\ (Returned \/ Aborted \/ mode = "lex"))
    /\ [][SkipAdvances]_vars
    /\ []LoopsConsume

\* f(a, g(b), (c)) was parsed: the argument loop ran twice and the parse returned
C10_Witness ==
    /\ input = srcNestedCall
    /\ Returned
    /\ pass = 1
    /\ eats = Len(tokens) - 1
    /\ Len(outcome.Statements[1].Expression.Arguments) = 3

\* C11 (as claimed): a source that is one digit run parses to a NumericLiteral
\* holding the decimal value of the run, leading zeros included, and renders
\* as that value's decimal numeral; as the right operand of a + it gives the
\* same node.
C11_DecimalValue ==
    \A s \in DigitRuns :
        LET n == NumericLiteral(ValueIn(s, 10))
        IN  /\ (pass = 1 /\ Halted /\ input = s)
                => /\ Returned
                   /\ outcome = Program(<<ExpressionStatement(n)>>)
                   /\ ToStringOf(outcome) = FormatInt(ValueIn(s, 10))
            /\ (pass = 1 /\ Halted /\ input = <<"a", "+">> \o s)
                => /\ Returned
                   /\ outcome = Program(<<ExpressionStatement(
                            BinaryExpression(<<"+">>, Identifier(<<"a">>), n))>>)

====
